---- MODULE Spec2Model ----
(***************************************************************************)
(* Model of vps-agent/src/core/llm.py: the LLM providers, the ModelRouter  *)
(* and the create_llm_setup factory.                                       *)
(*                                                                         *)
(* Conventions.                                                            *)
(*  - A Python str whose characters matter (a model identifier) is a       *)
(*    sequence of one-character strings.                                   *)
(*  - A Python dict is a function whose DOMAIN is the set of keys present. *)
(*  - An Optional value is a sequence of length at most one: None is <<>>  *)
(*    and a present value x is <<x>>.                                      *)
(*  - A complexity is a float of [0.0, 1.0] counted in tenths.             *)
(*  - An exception is named by its Python type; "None" is no exception.    *)
(*  - The arguments string of a tool call is the sequence of its lexemes.  *)
(*  - inflight maps each task that calls complete to the position of its   *)
(*    call: idle, awaiting the backend, or done with the outcome.          *)
(*  - history records select_model calls for comparing two of them; it is *)
(*    switched on in SpecPurity only and read by no operation.             *)
(*  - client is the BolComClient object and now the wall clock in seconds.  *)
(***************************************************************************)
EXTENDS Integers, Sequences, FiniteSets, TLC

VARIABLES config, status, providers, models, default_provider, last, inflight,
          history, client, now

vars ==
    <<config, status, providers, models, default_provider, last, inflight, history,
      client, now>>

----------------------------------------------------------------------------
(* Python values *)

None == <<>>

Some(x) == <<x>>

EmptyDict == [k \in {} |-> <<>>]

\* dict.get(key, default)
dict_get_default(d, key, default) == IF key \in DOMAIN d THEN d[key] ELSE default

\* dict.get(key): None when the key is absent
dict_get(d, key) == IF key \in DOMAIN d THEN Some(d[key]) ELSE None

UpperCase == <<"A","B","C","D","E","F","G","H","I","J","K","L","M",
               "N","O","P","Q","R","S","T","U","V","W","X","Y","Z">>

LowerCase == <<"a","b","c","d","e","f","g","h","i","j","k","l","m",
               "n","o","p","q","r","s","t","u","v","w","x","y","z">>

\* str.lower() on one character
lower_char(c) ==
    IF \E i \in DOMAIN UpperCase : UpperCase[i] = c
    THEN LowerCase[CHOOSE i \in DOMAIN UpperCase : UpperCase[i] = c]
    ELSE c

\* the identifier used as it is written: `"gpt" in model`
lower_not_applied(s) == s

\* str.lower()
lower(s) == [i \in 1..Len(s) |-> lower_char(s[i])]

\* the Python test `sub in s` on strings
str_in(sub, s) ==
    \E i \in 1..(Len(s) - Len(sub) + 1) : SubSeq(s, i, i + Len(sub) - 1) = sub

----------------------------------------------------------------------------
(* Model identifiers and string literals of llm.py *)

claude_3_5_sonnet ==
    <<"c","l","a","u","d","e","-","3","-","5","-","s","o","n","n","e","t">>

claude_3_haiku == <<"c","l","a","u","d","e","-","3","-","h","a","i","k","u">>

gpt_4_turbo_preview ==
    <<"g","p","t","-","4","-","t","u","r","b","o","-","p","r","e","v","i","e","w">>

gpt == <<"g","p","t">>

claude == <<"c","l","a","u","d","e">>

\* identifiers a configuration or a caller may supply
claude_3_opus == <<"c","l","a","u","d","e","-","3","-","o","p","u","s">>

GPT_4 == <<"G","P","T","-","4">>

gpt_4o == <<"g","p","t","-","4","o">>

unknown_model == <<"u","n","k","n","o","w","n","-","m","o","d","e","l">>

Claude_Instant == <<"C","l","a","u","d","e","-","I","n","s","t","a","n","t">>

claude_via_gpt == <<"c","l","a","u","d","e","-","v","i","a","-","G","p","t">>

llama_gp_t == <<"l","l","a","m","a","-","g","p","-","t">>

Gpt_CLAUDE == <<"G","p","t","-","C","L","A","U","D","E">>

ModelIds ==
    { claude_3_5_sonnet, claude_3_haiku, gpt_4_turbo_preview, claude_3_opus,
      GPT_4, gpt_4o, unknown_model, Claude_Instant, claude_via_gpt, llama_gp_t,
      Gpt_CLAUDE }

----------------------------------------------------------------------------
(* Configurations handed to create_llm_setup *)

\* the values a credential key may hold when present: empty or a key
ApiKeyValues == { <<>>, <<"s","k">> }

\* the value each model key holds when the configuration overrides it
ModelOverride ==
    [ DEFAULT_MODEL |-> claude_3_opus,
      MODEL_COMPLEX |-> GPT_4,
      MODEL_FAST    |-> unknown_model,
      MODEL_CODING  |-> gpt_4_turbo_preview,
      OPENAI_MODEL  |-> gpt_4o ]

CredentialKeys == {"ABACUS_API_KEY", "OPENAI_API_KEY"}

ModelKeys == DOMAIN ModelOverride

Configs ==
    UNION { { [k \in ks |-> IF k \in ModelKeys THEN ModelOverride[k] ELSE cred[k]] :
                cred \in [CredentialKeys -> ApiKeyValues] } :
            ks \in SUBSET (CredentialKeys \cup ModelKeys) }

\* truthiness of config.get(key) for a str-valued key
config_truthy(c, key) == key \in DOMAIN c /\ c[key] # <<>>

----------------------------------------------------------------------------
(* Providers: AbacusProvider.__init__, OpenAIProvider.__init__ *)

AbacusProvider(default_model) ==
    [cls |-> "AbacusProvider", default_model |-> default_model]

OpenAIProvider(default_model) ==
    [cls |-> "OpenAIProvider", default_model |-> default_model]

----------------------------------------------------------------------------
(* Tool-call argument strings and their two readers: json.loads, eval *)

DoubleQuoted == {"\"city\"", "\"Paris\"", "\"ok\""}

SingleQuoted == {"'city'", "'Paris'"}

NumberLits == {"1", "2"}

JsonConstants == {"true", "false", "null"}

PyConstants == {"True", "False", "None"}

\* identifiers Python reads as names no scope binds
PyUnboundNames == {"bad", "json", "true", "false", "null"}

\* call expressions with an effect outside the process
PyCalls == {"__import__('os').system('id')"}

\* what each reader accepts as a value on its own, and as the key of a member
JsonGrammar ==
    [ atoms |-> DoubleQuoted \cup NumberLits \cup JsonConstants,
      keys  |-> DoubleQuoted ]

PythonGrammar ==
    [ atoms |-> DoubleQuoted \cup SingleQuoted \cup NumberLits \cup PyConstants
                  \cup PyUnboundNames \cup PyCalls,
      keys  |-> DoubleQuoted \cup SingleQuoted \cup NumberLits \cup PyConstants
                  \cup PyUnboundNames \cup PyCalls ]

RECURSIVE parse_value(_, _, _), parse_members(_, _, _), parse_elements(_, _, _)

\* the index after the value that starts at lexeme i, or 0 when there is none
parse_value(g, t, i) ==
    IF i > Len(t) THEN 0
    ELSE IF t[i] = "{"
         THEN IF i < Len(t) /\ t[i + 1] = "}" THEN i + 2 ELSE parse_members(g, t, i + 1)
    ELSE IF t[i] = "["
         THEN IF i < Len(t) /\ t[i + 1] = "]" THEN i + 2 ELSE parse_elements(g, t, i + 1)
    ELSE IF t[i] \in g.atoms THEN i + 1
    ELSE 0

\* key : value { , key : value } }
parse_members(g, t, i) ==
    IF i + 1 > Len(t) \/ t[i] \notin g.keys \/ t[i + 1] # ":" THEN 0
    ELSE LET v == parse_value(g, t, i + 2)
         IN IF v = 0 \/ v > Len(t) THEN 0
            ELSE IF t[v] = "}" THEN v + 1
            ELSE IF t[v] = "," THEN parse_members(g, t, v + 1)
            ELSE 0

\* value { , value } ]
parse_elements(g, t, i) ==
    LET v == parse_value(g, t, i)
    IN IF v = 0 \/ v > Len(t) THEN 0
       ELSE IF t[v] = "]" THEN v + 1
       ELSE IF t[v] = "," THEN parse_elements(g, t, v + 1)
       ELSE 0

\* the whole string is one value of the grammar
well_formed(g, t) == parse_value(g, t, 1) = Len(t) + 1

\* the Python type of the value a well-formed string denotes
value_type(t) ==
    IF t[1] = "{" THEN "dict"
    ELSE IF t[1] = "[" THEN "list"
    ELSE IF t[1] \in DoubleQuoted \cup SingleQuoted THEN "str"
    ELSE IF t[1] \in {"true", "false", "True", "False"} THEN "bool"
    ELSE IF t[1] \in {"null", "None"} THEN "NoneType"
    ELSE "int"

\* one lexeme of the value's repr: quotes, constants and call results normalised
lexeme_value(x) ==
    IF x = "'city'" THEN "\"city\""
    ELSE IF x = "'Paris'" THEN "\"Paris\""
    ELSE IF x = "True" THEN "true"
    ELSE IF x = "False" THEN "false"
    ELSE IF x = "None" THEN "null"
    ELSE IF x \in PyCalls THEN "0"
    ELSE x

\* the value a well-formed string denotes: its type and its normalised lexemes
value_of(t) ==
    [type |-> value_type(t), repr |-> [i \in 1..Len(t) |-> lexeme_value(t[i])]]

\* json.loads(s): strict JSON, nothing is executed
json_loads(t) ==
    IF well_formed(JsonGrammar, t)
    THEN [raised |-> "None", value |-> Some(value_of(t)),
          reader |-> "json.loads", executed |-> {}]
    ELSE [raised |-> "JSONDecodeError", value |-> None,
          reader |-> "json.loads", executed |-> {}]

\* eval(s): the string is compiled as a Python expression and evaluated left to
\* right: calls run, an unbound name raises NameError
eval(t) ==
    IF ~well_formed(PythonGrammar, t)
    THEN [raised |-> "SyntaxError", value |-> None, reader |-> "eval", executed |-> {}]
    ELSE LET unbound == {i \in 1..Len(t) : t[i] \in PyUnboundNames}
             stop == IF unbound = {} THEN Len(t) + 1
                     ELSE CHOOSE i \in unbound : \A j \in unbound : i <= j
             ran == {t[i] : i \in {j \in 1..(stop - 1) : t[j] \in PyCalls}}
         IN IF unbound = {}
            THEN [raised |-> "None", value |-> Some(value_of(t)),
                  reader |-> "eval", executed |-> ran]
            ELSE [raised |-> "NameError", value |-> None,
                  reader |-> "eval", executed |-> ran]

\* arguments strings a backend may send
ArgStrings ==
    { <<"{", "\"city\"", ":", "\"Paris\"", "}">>,
      <<"{", "\"ok\"", ":", "true", "}">>,
      <<"{", "'city'", ":", "'Paris'", "}">>,
      <<"{", "bad", "json">>,
      <<"[", "1", ",", "2", "]">>,
      <<"\"Paris\"">>,
      <<"__import__('os').system('id')">> }

----------------------------------------------------------------------------
(* Backend responses: what `await client.chat.completions.create(...)` gives *)

\* most tool calls in one response
MaxToolCalls == 2

\* exceptions of the openai client library
BackendExceptions ==
    { "openai.AuthenticationError", "openai.RateLimitError",
      "openai.APITimeoutError", "openai.APIConnectionError",
      "openai.InternalServerError" }

tool_call(i, arguments) ==
    [ id |-> <<"call", i>>,
      name |-> IF i % 2 = 1 THEN "web_search" ELSE "execute_code",
      arguments |-> arguments ]

ToolCallLists ==
    UNION { { [i \in 1..n |-> tool_call(i, args[i])] : args \in [1..n -> ArgStrings] } :
            n \in 0..MaxToolCalls }

\* message.content is None or text; message.tool_calls is None or a list
Messages ==
    [ content : {None, Some("Paris is sunny")},
      tool_calls : {None} \cup {Some(l) : l \in ToolCallLists} ]

Responses ==
    [exc : BackendExceptions, choices : {<<>>}]
        \cup [exc : {"None"}, choices : {<<>>} \cup {<<m>> : m \in Messages}]

----------------------------------------------------------------------------
(* complete: AbacusProvider.complete, OpenAIProvider.complete *)

\* the conversations, tool lists, models and options a caller passes
Conversations == { <<[role |-> "user", content |-> "weather in Paris?"]>> }

ToolLists ==
    { None, Some(<<>>),
      Some(<<[type |-> "function", function |-> [name |-> "web_search"]]>>) }

ModelArgs == { None, Some(<<>>), Some(claude_3_haiku) }

Options == { EmptyDict, [temperature |-> 2, max_tokens |-> 256] }

\* the model argument ignored: `model = self.default_model`
model_or_default_ignores_model(self, model) == self.default_model

\* `model or self.default_model`
model_or_default(self, model) ==
    IF model = None \/ model[1] = <<>> THEN self.default_model ELSE model[1]

\* completion_kwargs with a tool forced: `tool_choice = "required"`
completion_kwargs_tool_required(self, messages, tools, model, kwargs) ==
    LET tools_truthy == tools # None /\ tools[1] # <<>>
        keys == {"model", "messages", "temperature", "max_tokens"}
                  \cup (IF tools_truthy THEN {"tools", "tool_choice"} ELSE {})
    IN [k \in keys |->
          CASE k = "model" -> model_or_default(self, model)
            [] k = "messages" -> messages
            [] k = "temperature" -> dict_get_default(kwargs, "temperature", 7)
            [] k = "max_tokens" -> dict_get_default(kwargs, "max_tokens", 4096)
            [] k = "tools" -> tools[1]
            [] k = "tool_choice" -> "required"]

\* completion_kwargs: the request both providers build before the await
completion_kwargs(self, messages, tools, model, kwargs) ==
    LET tools_truthy == tools # None /\ tools[1] # <<>>
        keys == {"model", "messages", "temperature", "max_tokens"}
                  \cup (IF tools_truthy THEN {"tools", "tool_choice"} ELSE {})
    IN [k \in keys |->
          CASE k = "model" -> model_or_default(self, model)
            [] k = "messages" -> messages
            [] k = "temperature" -> dict_get_default(kwargs, "temperature", 7)
            [] k = "max_tokens" -> dict_get_default(kwargs, "max_tokens", 4096)
            [] k = "tools" -> tools[1]
            [] k = "tool_choice" -> "auto"]

\* the tool calls of a response, an empty list when `message.tool_calls` is falsy
message_tool_calls(response) ==
    IF response.exc # "None" \/ response.choices = <<>> THEN <<>>
    ELSE IF response.choices[1].tool_calls = None THEN <<>>
    ELSE response.choices[1].tool_calls[1]

\* the try block with the content formatted instead of defaulted:
\* `str(message.content)` gives "None" for a message without text
complete_outcome_str_content(response, read) ==
    IF response.exc # "None"
    THEN [raised |-> response.exc, result |-> None, readers |-> {}, executed |-> {}]
    ELSE IF response.choices = <<>>
    THEN [raised |-> "IndexError", result |-> None, readers |-> {}, executed |-> {}]
    ELSE LET message == response.choices[1]
             tcs == message_tool_calls(response)
             failing == {i \in 1..Len(tcs) : read[i].raised # "None"}
             stop == IF failing = {} THEN Len(tcs)
                     ELSE CHOOSE i \in failing : \A j \in failing : i <= j
         IN [ raised |-> IF failing = {} THEN "None" ELSE read[stop].raised,
              result |->
                 IF failing # {} THEN None
                 ELSE Some([ content |-> IF message.content = None THEN "None"
                                         ELSE message.content[1],
                             tool_calls |->
                                [i \in 1..Len(tcs) |->
                                   [ id |-> tcs[i].id,
                                     function |-> [ name |-> tcs[i].name,
                                                    arguments |-> read[i].value[1] ] ]] ]),
              readers |-> {read[i].reader : i \in 1..stop},
              executed |-> UNION {read[i].executed : i \in 1..stop} ]

\* the body of the try block after the await, given what reading each tool
\* call's arguments gives; `except Exception: log; raise` re-raises unchanged
complete_outcome(response, read) ==
    IF response.exc # "None"
    THEN [raised |-> response.exc, result |-> None, readers |-> {}, executed |-> {}]
    ELSE IF response.choices = <<>>
    THEN [raised |-> "IndexError", result |-> None, readers |-> {}, executed |-> {}]
    ELSE LET message == response.choices[1]
             tcs == message_tool_calls(response)
             failing == {i \in 1..Len(tcs) : read[i].raised # "None"}
             stop == IF failing = {} THEN Len(tcs)
                     ELSE CHOOSE i \in failing : \A j \in failing : i <= j
         IN [ raised |-> IF failing = {} THEN "None" ELSE read[stop].raised,
              result |->
                 IF failing # {} THEN None
                 ELSE Some([ content |-> IF message.content = None THEN ""
                                         ELSE message.content[1],
                             tool_calls |->
                                [i \in 1..Len(tcs) |->
                                   [ id |-> tcs[i].id,
                                     function |-> [ name |-> tcs[i].name,
                                                    arguments |-> read[i].value[1] ] ]] ]),
              readers |-> {read[i].reader : i \in 1..stop},
              executed |-> UNION {read[i].executed : i \in 1..stop} ]

\* AbacusProvider.complete after the await: arguments read by json.loads
AbacusProvider_complete(response) ==
    LET tcs == message_tool_calls(response)
    IN complete_outcome(response, [i \in 1..Len(tcs) |-> json_loads(tcs[i].arguments)])

\* OpenAIProvider.complete after the await: arguments read by eval
OpenAIProvider_complete(response) ==
    LET tcs == message_tool_calls(response)
    IN complete_outcome(response, [i \in 1..Len(tcs) |-> eval(tcs[i].arguments)])

----------------------------------------------------------------------------
(* tools_definitions.py: the tool schemas and get_tools *)

\* a tool schema in function-calling format; of the function only the name is
\* kept (description and parameters play no part in get_tools)
ToolSchema(name) == [type |-> "function", function |-> [name |-> name]]

CORE_TOOLS ==
    << ToolSchema("execute_python"), ToolSchema("shell_command"),
       ToolSchema("browser_navigate"), ToolSchema("web_search"),
       ToolSchema("save_file"), ToolSchema("read_file"), ToolSchema("complete") >>

AFFILIATE_TOOLS ==
    << ToolSchema("search_products"), ToolSchema("get_product_details"),
       ToolSchema("generate_affiliate_link"), ToolSchema("analyze_competition"),
       ToolSchema("get_niche_suggestions") >>

CONTENT_TOOLS ==
    << ToolSchema("generate_review_outline"), ToolSchema("generate_seo_meta"),
       ToolSchema("format_product_card") >>

PRODUCTPRAAT_TOOLS ==
    << ToolSchema("save_to_productpraat"), ToolSchema("schedule_content"),
       ToolSchema("get_affiliate_stats") >>

\* the default tools
TOOLS == CORE_TOOLS \o AFFILIATE_TOOLS

ALL_TOOLS == CORE_TOOLS \o AFFILIATE_TOOLS \o CONTENT_TOOLS \o PRODUCTPRAAT_TOOLS

TOOL_CATEGORIES ==
    [ core |-> CORE_TOOLS, affiliate |-> AFFILIATE_TOOLS, content |-> CONTENT_TOOLS,
      productpraat |-> PRODUCTPRAAT_TOOLS, all |-> ALL_TOOLS ]

\* the loop of get_tools: tools.extend(TOOL_CATEGORIES[cat]) for each known cat
RECURSIVE extend_each(_)
extend_each(cats) ==
    IF cats = <<>> THEN <<>>
    ELSE (IF Head(cats) \in DOMAIN TOOL_CATEGORIES THEN TOOL_CATEGORIES[Head(cats)]
          ELSE <<>>) \o extend_each(Tail(cats))

\* get_tools(categories): TOOLS when categories is None or empty
get_tools(categories) ==
    IF categories = None \/ categories[1] = <<>> THEN TOOLS
    ELSE extend_each(categories[1])

\* longest list of category names a caller passes
MaxCategories == 3

\* category names a caller may pass, one of them not a category
CategoryNames == {"core", "affiliate", "content", "productpraat", "all", "seo"}

\* the categories argument: None or a list of names
CategoryArgs ==
    {None} \cup { Some(cats) : cats \in UNION { [1..n -> CategoryNames] : n \in 0..MaxCategories } }

----------------------------------------------------------------------------
(* ModelRouter *)

Tiers == {"complex", "fast", "coding", "default"}

\* ModelRouter.__init__: self.models
router_models(c) ==
    [ complex   |-> dict_get_default(c, "MODEL_COMPLEX", claude_3_5_sonnet),
      fast      |-> dict_get_default(c, "MODEL_FAST", claude_3_haiku),
      coding    |-> dict_get_default(c, "MODEL_CODING", claude_3_5_sonnet),
      default   |-> dict_get_default(c, "DEFAULT_MODEL", claude_3_5_sonnet) ]

\* complexity is counted in tenths: 10 is 1.0
ComplexityScale == 10

Complexities == 0..ComplexityScale

\* `complexity > 0.7`
ComplexThreshold == 7

\* `complexity < 0.3`
FastThreshold == 3

CodingTasks == {"code", "coding", "programming"}

SimpleTasks == {"simple", "file_operation", "read"}

AnalysisTasks == {"analysis", "research", "planning"}

\* task types a caller may pass: the nine the router names and some it does not
TaskTypes ==
    CodingTasks \cup SimpleTasks \cup AnalysisTasks \cup {"chat", "Coding", ""}

\* select_model without its fourth rule: analysis tasks fall to the default tier
select_model_no_analysis_rule(ms, task_type, complexity) ==
    IF complexity > ComplexThreshold THEN ms["complex"]
    ELSE IF task_type \in CodingTasks THEN ms["coding"]
    ELSE IF complexity < FastThreshold /\ task_type \in SimpleTasks THEN ms["fast"]
    ELSE ms["default"]

\* select_model with the complexity rule applied only to non-simple tasks
select_model_simple_exempt(ms, task_type, complexity) ==
    IF complexity > ComplexThreshold /\ task_type \notin SimpleTasks THEN ms["complex"]
    ELSE IF task_type \in CodingTasks THEN ms["coding"]
    ELSE IF complexity < FastThreshold /\ task_type \in SimpleTasks THEN ms["fast"]
    ELSE IF task_type \in AnalysisTasks THEN ms["complex"]
    ELSE ms["default"]

\* select_model with the coding rule tested before the complexity rule
select_model_coding_first(ms, task_type, complexity) ==
    IF task_type \in CodingTasks THEN ms["coding"]
    ELSE IF complexity > ComplexThreshold THEN ms["complex"]
    ELSE IF complexity < FastThreshold /\ task_type \in SimpleTasks THEN ms["fast"]
    ELSE IF task_type \in AnalysisTasks THEN ms["complex"]
    ELSE ms["default"]

\* select_model with inclusive thresholds: `>= 0.7` and `<= 0.3`
select_model_inclusive(ms, task_type, complexity) ==
    IF complexity >= ComplexThreshold THEN ms["complex"]
    ELSE IF task_type \in CodingTasks THEN ms["coding"]
    ELSE IF complexity <= FastThreshold /\ task_type \in SimpleTasks THEN ms["fast"]
    ELSE IF task_type \in AnalysisTasks THEN ms["complex"]
    ELSE ms["default"]

\* ModelRouter.select_model
select_model(ms, task_type, complexity) ==
    IF complexity > ComplexThreshold THEN ms["complex"]
    ELSE IF task_type \in CodingTasks THEN ms["coding"]
    ELSE IF complexity < FastThreshold /\ task_type \in SimpleTasks THEN ms["fast"]
    ELSE IF task_type \in AnalysisTasks THEN ms["complex"]
    ELSE ms["default"]

\* get_provider with its first two branches swapped: "claude" tested first
provider_key_claude_first(model) ==
    IF str_in(claude, lower(model)) THEN "abacus"
    ELSE IF str_in(gpt, lower(model)) THEN "openai"
    ELSE "abacus"

\* ModelRouter.get_provider: the registry key its branch looks up
provider_key(model) ==
    IF str_in(gpt, lower(model)) THEN "openai"
    ELSE IF str_in(claude, lower(model)) THEN "abacus"
    ELSE "abacus"

\* ModelRouter.get_provider: self.providers.get(key), None when absent;
\* no branch raises
get_provider(ps, model) ==
    [ret |-> dict_get(ps, provider_key(model)), raised |-> "None"]

----------------------------------------------------------------------------
(* create_llm_setup *)

\* the providers dict built for every credential key present, empty or not:
\* `if "ABACUS_API_KEY" in config`
setup_providers_key_present(c) ==
    LET keys == (IF "ABACUS_API_KEY" \in DOMAIN c THEN {"abacus"} ELSE {})
                \cup (IF "OPENAI_API_KEY" \in DOMAIN c THEN {"openai"} ELSE {})
    IN [k \in keys |->
          IF k = "abacus"
          THEN AbacusProvider(dict_get_default(c, "DEFAULT_MODEL", claude_3_5_sonnet))
          ELSE OpenAIProvider(dict_get_default(c, "OPENAI_MODEL", gpt_4_turbo_preview))]

\* the providers dict built from the credentials present
setup_providers(c) ==
    LET keys == (IF config_truthy(c, "ABACUS_API_KEY") THEN {"abacus"} ELSE {})
                \cup (IF config_truthy(c, "OPENAI_API_KEY") THEN {"openai"} ELSE {})
    IN [k \in keys |->
          IF k = "abacus"
          THEN AbacusProvider(dict_get_default(c, "DEFAULT_MODEL", claude_3_5_sonnet))
          ELSE OpenAIProvider(dict_get_default(c, "OPENAI_MODEL", gpt_4_turbo_preview))]

\* create_llm_setup without its check of the providers dict
setup_never_raises(ps) == "None"

\* `if not providers: raise ValueError(...)`
setup_raises(ps) == IF DOMAIN ps = {} THEN "ValueError" ELSE "None"

\* `providers.get("openai") or providers.get("abacus")`
setup_default_provider_openai_first(ps) ==
    IF dict_get(ps, "openai") # None THEN dict_get(ps, "openai")
    ELSE dict_get(ps, "abacus")

\* `providers.get("abacus") or providers.get("openai")`
setup_default_provider(ps) ==
    IF dict_get(ps, "abacus") # None THEN dict_get(ps, "abacus")
    ELSE dict_get(ps, "openai")

----------------------------------------------------------------------------
(* The state machine *)

----------------------------------------------------------------------------
(* affiliate_tools.py: BolComClient and its access token *)

\* BolComClient.__init__: self._token = None, self._token_expires = 0
BolComClient == [token |-> None, token_expires |-> 0]

\* seconds before the expiry from which the token is no longer used
ExpiryMargin == 30

\* _get_token with the expiry itself still counted as usable:
\* `datetime.now().timestamp() <= self._token_expires - 30`
token_usable_inclusive(c, t) ==
    /\ c.token # None
    /\ c.token[1] # ""
    /\ t <= c.token_expires - ExpiryMargin

\* `self._token and datetime.now().timestamp() < self._token_expires - 30`
token_usable(c, t) ==
    /\ c.token # None
    /\ c.token[1] # ""
    /\ t < c.token_expires - ExpiryMargin

\* the wall clock runs to MaxTime seconds in steps of ClockStep
MaxTime == 60

ClockStep == 10

\* what the auth endpoint may answer: a status, and for 200 a body with
\* access_token and expires_in
AccessTokens == {"token-a", "token-b"}

ExpiresIn == {30, 40, 60}

AuthStatuses == {200, 401, 503}

AuthResponses ==
    [status : {200}, access_token : AccessTokens, expires_in : ExpiresIn]
        \cup [status : AuthStatuses \ {200}]

\* the record of calls kept for comparing two select_model calls: off unless a
\* run switches it on; `call` is one earlier select_model call with its return
\* value, `between` tells that another call was made on the router since
NoHistory == [recording |-> FALSE, call |-> None, between |-> FALSE]

Recording == [recording |-> TRUE, call |-> None, between |-> FALSE]

\* select_model(task_type, complexity) has returned ret: the call may become
\* the remembered one; once one is remembered, a call with other arguments
\* counts as made in between
ObserveSelect(task_type, complexity, ret) ==
    IF ~history.recording THEN history' = history
    ELSE IF history.call = None
    THEN history' \in
           { history,
             [history EXCEPT !.call =
                Some([ task_type |-> task_type, complexity |-> complexity,
                       ret |-> ret ])] }
    ELSE history' =
           [history EXCEPT !.between =
              @ \/ history.call[1].task_type # task_type
                \/ history.call[1].complexity # complexity]

\* another operation of the router has run
ObserveOther ==
    history' =
      IF history.recording /\ history.call # None
      THEN [history EXCEPT !.between = TRUE]
      ELSE history

Init ==
    /\ config \in Configs
    /\ status = "start"
    /\ providers = EmptyDict
    /\ models = EmptyDict
    /\ default_provider = None
    /\ last = [op |-> "none"]
    /\ inflight = EmptyDict
    /\ history = NoHistory
    /\ client = BolComClient
    /\ now = 0

\* create_llm_setup(config): returns (default_provider, router) or raises
CreateLlmSetup ==
    /\ status = "start"
    /\ LET ps == setup_providers(config)
           exc == setup_raises(ps)
       IN IF exc # "None"
          THEN /\ status' = "failed"
               /\ last' = [op |-> "create_llm_setup", raised |-> exc]
               /\ UNCHANGED <<providers, models, default_provider>>
          ELSE /\ status' = "ready"
               /\ providers' = ps
               /\ models' = router_models(config)
               /\ default_provider' = setup_default_provider(ps)
               /\ last' = [op |-> "create_llm_setup", raised |-> "None"]
    /\ UNCHANGED <<config, client, now, inflight, history>>

\* select_model keeping its last answer as the default tier:
\* `self.models["default"] = model` before each return
SelectModel_rebinds_default ==
    /\ status = "ready"
    /\ status' = "returned"
    /\ \E task_type \in TaskTypes, complexity \in Complexities :
          LET ret == select_model(models, task_type, complexity)
          IN /\ last' = [ op |-> "select_model", task_type |-> task_type,
                          complexity |-> complexity, ret |-> ret ]
             /\ models' = [models EXCEPT !["default"] = ret]
             /\ ObserveSelect(task_type, complexity, ret)
    /\ UNCHANGED <<config, client, now, providers, default_provider, inflight>>

\* router.select_model(task_type, complexity)
SelectModel ==
    /\ status = "ready"
    /\ status' = "returned"
    /\ \E task_type \in TaskTypes, complexity \in Complexities :
          LET ret == select_model(models, task_type, complexity)
          IN /\ last' = [ op |-> "select_model", task_type |-> task_type,
                          complexity |-> complexity, ret |-> ret ]
             /\ ObserveSelect(task_type, complexity, ret)
    /\ UNCHANGED <<config, client, now, providers, models, default_provider, inflight>>

\* router.get_provider(model)
GetProvider ==
    /\ status = "ready"
    /\ status' = "returned"
    /\ \E model \in ModelIds :
          LET r == get_provider(providers, model)
          IN last' = [ op |-> "get_provider", model |-> model,
                       key |-> provider_key(model),
                       ret |-> r.ret, raised |-> r.raised ]
    /\ ObserveOther
    /\ UNCHANGED <<config, client, now, providers, models, default_provider, inflight>>

\* the caller has taken the value returned to it and may call again
Resume ==
    /\ status = "returned"
    /\ status' = "ready"
    /\ last' = [op |-> "none"]
    /\ UNCHANGED <<config, client, now, providers, models, default_provider, inflight, history>>

Next == CreateLlmSetup \/ SelectModel \/ GetProvider \/ Resume

Spec == Init /\ [][Next]_vars

\* ModelRouter(providers, config): a router built again from the same
\* providers and configuration takes the place of the first
NewRouter ==
    /\ status = "ready"
    /\ status' = "returned"
    /\ models' = router_models(config)
    /\ last' = [op |-> "ModelRouter"]
    /\ ObserveOther
    /\ UNCHANGED <<config, client, now, providers, default_provider, inflight>>

\* the configurations of the runs that compare select_model calls: the abacus
\* credential alone, the three tier keys all absent or all overridden
PurityConfigs ==
    { c \in Configs :
        /\ DOMAIN c \cap {"ABACUS_API_KEY", "OPENAI_API_KEY", "OPENAI_MODEL"}
              = {"ABACUS_API_KEY"}
        /\ c["ABACUS_API_KEY"] # <<>>
        /\ DOMAIN c \cap {"MODEL_COMPLEX", "MODEL_FAST", "MODEL_CODING"}
              \in {{}, {"MODEL_COMPLEX", "MODEL_FAST", "MODEL_CODING"}} }

InitPurity ==
    /\ config \in PurityConfigs
    /\ status = "start"
    /\ providers = EmptyDict
    /\ models = EmptyDict
    /\ default_provider = None
    /\ last = [op |-> "none"]
    /\ inflight = EmptyDict
    /\ history = Recording
    /\ client = BolComClient
    /\ now = 0

NextPurity == CreateLlmSetup \/ SelectModel \/ GetProvider \/ NewRouter \/ Resume

SpecPurity == InitPurity /\ [][NextPurity]_vars

\* the configuration of the runs that collect tools: both credentials, no
\* model key
ToolsConfigs ==
    { c \in Configs : DOMAIN c = CredentialKeys /\ \A k \in CredentialKeys : c[k] # <<>> }

InitTools ==
    /\ config \in ToolsConfigs
    /\ status = "start"
    /\ providers = EmptyDict
    /\ models = EmptyDict
    /\ default_provider = None
    /\ last = [op |-> "none"]
    /\ inflight = EmptyDict
    /\ history = NoHistory
    /\ client = BolComClient
    /\ now = 0

\* get_tools(categories): the tool list for a request
GetTools ==
    /\ status = "ready"
    /\ status' = "returned"
    /\ \E categories \in CategoryArgs :
          last' = [ op |-> "get_tools", categories |-> categories,
                    ret |-> get_tools(categories) ]
    /\ UNCHANGED <<config, client, now, providers, models, default_provider, inflight, history>>

NextTools == CreateLlmSetup \/ GetTools \/ Resume

SpecTools == InitTools /\ [][NextTools]_vars

\* provider.complete: the method of the provider's class
complete(cls, response) ==
    IF cls = "AbacusProvider" THEN AbacusProvider_complete(response)
    ELSE OpenAIProvider_complete(response)

\* the configurations of the provider runs: credentials present or absent,
\* tier models left at their defaults
CompleteConfigs ==
    { c \in Configs :
        /\ DOMAIN c \cap {"MODEL_COMPLEX", "MODEL_FAST", "MODEL_CODING"} = {}
        /\ \A k \in DOMAIN c \cap CredentialKeys : c[k] # <<>> }

InitComplete ==
    /\ config \in CompleteConfigs
    /\ status = "start"
    /\ providers = EmptyDict
    /\ models = EmptyDict
    /\ default_provider = None
    /\ last = [op |-> "none"]
    /\ inflight = [t \in {"task1"} |-> [pc |-> "idle"]]
    /\ history = NoHistory
    /\ client = BolComClient
    /\ now = 0

\* a task calls complete on a registered provider: the request is built and sent
CompleteCall(t, cls) ==
    /\ status = "ready"
    /\ inflight[t].pc = "idle"
    /\ \E key \in DOMAIN providers, messages \in Conversations, tools \in ToolLists,
          model \in ModelArgs, kwargs \in Options :
          /\ providers[key].cls = cls
          /\ inflight' =
               [inflight EXCEPT ![t] =
                  [ pc |-> "awaiting", self |-> providers[key],
                    messages |-> messages, tools |-> tools, model |-> model,
                    request |-> completion_kwargs(providers[key], messages, tools,
                                                  model, kwargs) ]]
    /\ UNCHANGED <<config, client, now, status, providers, models, default_provider, last, history>>

\* the backend answers (or the client raises) and complete returns or raises
CompleteReturn(t, cls) ==
    /\ inflight[t].pc = "awaiting"
    /\ inflight[t].self.cls = cls
    /\ \E response \in Responses :
          LET o == complete(cls, response)
          IN inflight' =
               [inflight EXCEPT ![t] =
                  [ pc |-> "done", self |-> inflight[t].self,
                    messages |-> inflight[t].messages, tools |-> inflight[t].tools,
                    model |-> inflight[t].model, request |-> inflight[t].request,
                    response |-> response, raised |-> o.raised, result |-> o.result,
                    readers |-> o.readers, executed |-> o.executed ]]
    /\ UNCHANGED <<config, client, now, status, providers, models, default_provider, last, history>>

AbacusCompleteCall == \E t \in DOMAIN inflight : CompleteCall(t, "AbacusProvider")

AbacusCompleteReturn ==
    \E t \in DOMAIN inflight : CompleteReturn(t, "AbacusProvider")

OpenAICompleteCall == \E t \in DOMAIN inflight : CompleteCall(t, "OpenAIProvider")

OpenAICompleteReturn ==
    \E t \in DOMAIN inflight : CompleteReturn(t, "OpenAIProvider")

\* the task has taken the result or the exception and may call again
TaskResume ==
    \E t \in DOMAIN inflight :
        /\ inflight[t].pc = "done"
        /\ inflight' = [inflight EXCEPT ![t] = [pc |-> "idle"]]
        /\ UNCHANGED <<config, client, now, status, providers, models, default_provider, last, history>>

NextComplete ==
    \/ CreateLlmSetup
    \/ AbacusCompleteCall
    \/ AbacusCompleteReturn
    \/ OpenAICompleteCall
    \/ OpenAICompleteReturn
    \/ TaskResume

SpecComplete == InitComplete /\ [][NextComplete]_vars

----------------------------------------------------------------------------
(* Callers of BolComClient._get_token *)

\* the tasks that use one BolComClient
TokenTasks == {"task1", "task2"}

InitToken ==
    /\ config \in ToolsConfigs
    /\ status = "start"
    /\ providers = EmptyDict
    /\ models = EmptyDict
    /\ default_provider = None
    /\ last = [op |-> "none"]
    /\ inflight = [t \in TokenTasks |-> [pc |-> "idle"]]
    /\ history = NoHistory
    /\ client = BolComClient
    /\ now = 0

\* _get_token up to its first await: the stored token is returned when it is
\* usable, else the auth request is sent
GetTokenCall(t) ==
    /\ inflight[t].pc = "idle"
    /\ inflight' =
         [inflight EXCEPT ![t] =
            IF token_usable(client, now)
            THEN [ pc |-> "done", op |-> "_get_token", requested |-> FALSE,
                   ret |-> client.token, raised |-> "None" ]
            ELSE [ pc |-> "awaiting", op |-> "_get_token", requested |-> TRUE ]]
    /\ UNCHANGED <<config, status, providers, models, default_provider, last,
                   history, client, now>>

\* the auth endpoint has answered: a status other than 200 raises, a 200 stores
\* the token and its expiry and returns the token
GetTokenReturn(t) ==
    /\ inflight[t].pc = "awaiting"
    /\ inflight[t].op = "_get_token"
    /\ \E resp \in AuthResponses :
          IF resp.status # 200
          THEN /\ inflight' =
                    [inflight EXCEPT ![t] =
                       [ pc |-> "done", op |-> "_get_token", requested |-> TRUE,
                         ret |-> None, raised |-> "Exception" ]]
               /\ client' = client
          ELSE /\ client' = [ token |-> Some(resp.access_token),
                              token_expires |-> now + resp.expires_in ]
               /\ inflight' =
                    [inflight EXCEPT ![t] =
                       [ pc |-> "done", op |-> "_get_token", requested |-> TRUE,
                         ret |-> Some(resp.access_token), raised |-> "None" ]]
    /\ UNCHANGED <<config, status, providers, models, default_provider, last,
                   history, now>>

GetTokenCalls == \E t \in DOMAIN inflight : GetTokenCall(t)

GetTokenReturns == \E t \in DOMAIN inflight : GetTokenReturn(t)

\* time passes
Tick ==
    /\ now + ClockStep <= MaxTime
    /\ now' = now + ClockStep
    /\ UNCHANGED <<config, status, providers, models, default_provider, last,
                   inflight, history, client>>

NextToken == GetTokenCalls \/ GetTokenReturns \/ Tick \/ TaskResume

SpecToken == InitToken /\ [][NextToken]_vars

----------------------------------------------------------------------------
(* Concurrent callers: each task routes its own model and awaits its call *)

\* the model and the conversation of each task: two calls with different models
TaskModel == [task1 |-> claude_3_haiku, task2 |-> gpt_4_turbo_preview]

TaskConversation ==
    [ task1 |-> <<[role |-> "user", content |-> "weather in Paris?"]>>,
      task2 |-> <<[role |-> "user", content |-> "list the files"]>> ]

\* the tool list a routed call passes
RoutedToolLists ==
    { Some(<<[type |-> "function", function |-> [name |-> "web_search"]]>>) }

\* what the backend may answer to one request: a failure, or a message about
\* the request's conversation with no tool call or one
BackendReplies(request) ==
    [exc : {"openai.RateLimitError"}, choices : {<<>>}]
        \cup [ exc : {"None"},
               choices :
                 { <<m>> : m \in
                     [ content : {Some(request["messages"][1].content)},
                       tool_calls :
                         { None,
                           Some(<<tool_call(1, <<"{", "\"city\"", ":", "\"Paris\"", "}">>)>>),
                           Some(<<tool_call(1, <<"{", "'city'", ":", "'Paris'", "}">>)>>) } ] } ]

InitConcurrent ==
    /\ config \in CompleteConfigs
    /\ status = "start"
    /\ providers = EmptyDict
    /\ models = EmptyDict
    /\ default_provider = None
    /\ last = [op |-> "none"]
    /\ inflight = [t \in DOMAIN TaskModel |-> [pc |-> "idle"]]
    /\ history = NoHistory
    /\ client = BolComClient
    /\ now = 0

\* the call with the model kept on the provider: `self.default_model = model`
RoutedCompleteCall_keeps_model(t) ==
    /\ status \in {"ready", "returned"}
    /\ inflight[t].pc = "idle"
    /\ get_provider(providers, TaskModel[t]).ret # None
    /\ LET key == provider_key(TaskModel[t])
           self == [providers[key] EXCEPT !.default_model = TaskModel[t]]
       IN /\ providers' = [providers EXCEPT ![key] = self]
          /\ \E tools \in RoutedToolLists :
               inflight' =
                 [inflight EXCEPT ![t] =
                    [ pc |-> "awaiting", self |-> self,
                      messages |-> TaskConversation[t], tools |-> tools,
                      model |-> Some(TaskModel[t]),
                      request |-> completion_kwargs(self, TaskConversation[t], tools,
                                                    Some(TaskModel[t]), EmptyDict) ]]
    /\ UNCHANGED <<config, client, now, status, models, default_provider, last, history>>

\* a task resolves the provider of its model with get_provider and calls
\* complete on it with that model: the request is built and sent
RoutedCompleteCall(t) ==
    /\ status \in {"ready", "returned"}
    /\ inflight[t].pc = "idle"
    /\ LET r == get_provider(providers, TaskModel[t])
       IN /\ r.ret # None
          /\ \E tools \in RoutedToolLists :
               inflight' =
                 [inflight EXCEPT ![t] =
                    [ pc |-> "awaiting", self |-> r.ret[1],
                      messages |-> TaskConversation[t], tools |-> tools,
                      model |-> Some(TaskModel[t]),
                      request |-> completion_kwargs(r.ret[1], TaskConversation[t], tools,
                                                    Some(TaskModel[t]), EmptyDict) ]]
    /\ UNCHANGED <<config, client, now, status, providers, models, default_provider, last, history>>

\* the return with the result kept in one place for all calls: every call that
\* is awaiting receives the outcome of this one
RoutedCompleteReturn_shared_result(t) ==
    /\ inflight[t].pc = "awaiting"
    /\ \E response \in BackendReplies(inflight[t].request) :
          LET o == complete(inflight[t].self.cls, response)
          IN inflight' =
               [u \in DOMAIN inflight |->
                  IF inflight[u].pc = "awaiting"
                  THEN [ pc |-> "done", self |-> inflight[u].self,
                         messages |-> inflight[u].messages, tools |-> inflight[u].tools,
                         model |-> inflight[u].model, request |-> inflight[u].request,
                         response |-> response, raised |-> o.raised,
                         result |-> o.result, readers |-> o.readers,
                         executed |-> o.executed ]
                  ELSE inflight[u]]
    /\ UNCHANGED <<config, client, now, status, providers, models, default_provider, last, history>>

\* the backend answers the task's request and its complete returns or raises
RoutedCompleteReturn(t) ==
    /\ inflight[t].pc = "awaiting"
    /\ \E response \in BackendReplies(inflight[t].request) :
          LET o == complete(inflight[t].self.cls, response)
          IN inflight' =
               [inflight EXCEPT ![t] =
                  [ pc |-> "done", self |-> inflight[t].self,
                    messages |-> inflight[t].messages, tools |-> inflight[t].tools,
                    model |-> inflight[t].model, request |-> inflight[t].request,
                    response |-> response, raised |-> o.raised, result |-> o.result,
                    readers |-> o.readers, executed |-> o.executed ]]
    /\ UNCHANGED <<config, client, now, status, providers, models, default_provider, last, history>>

RoutedCall == \E t \in DOMAIN inflight : RoutedCompleteCall(t)

RoutedReturn == \E t \in DOMAIN inflight : RoutedCompleteReturn(t)

NextConcurrent ==
    \/ CreateLlmSetup
    \/ SelectModel
    \/ GetProvider
    \/ Resume
    \/ RoutedCall
    \/ RoutedReturn
    \/ TaskResume

SpecConcurrent == InitConcurrent /\ [][NextConcurrent]_vars

----------------------------------------------------------------------------
(* Properties of ModelRouter.select_model *)

\* the four tiers are bound to four different models, so a result names its tier
TiersDistinct ==
    /\ DOMAIN models = Tiers
    /\ \A a, b \in Tiers : a # b => models[a] # models[b]

\* the decision table of the specification, complexity in tenths
TableConditions(task_type, complexity) ==
    << complexity > 7,
       task_type \in {"code", "coding", "programming"},
       complexity < 3 /\ task_type \in {"simple", "file_operation", "read"},
       task_type \in {"analysis", "research", "planning"},
       TRUE >>

TableTiers == <<"complex", "coding", "fast", "complex", "default">>

\* the first row of the table whose condition holds
FirstMatch(task_type, complexity) ==
    LET conds == TableConditions(task_type, complexity)
    IN CHOOSE i \in 1..5 : conds[i] /\ \A j \in 1..(i - 1) : ~conds[j]

\* C1: select_model returns the model bound to the tier of the first matching
\* row of the five-row decision table, for every task type and complexity.
C1_DecisionTable ==
    last.op = "select_model" =>
        last.ret = models[TableTiers[FirstMatch(last.task_type, last.complexity)]]

\* a low-complexity read was routed to the fast tier, tiers being distinguishable
C1_Witness ==
    /\ last.op = "select_model"
    /\ last.task_type = "read"
    /\ last.complexity = 2
    /\ TiersDistinct
    /\ last.ret = models["fast"]

\* C2: for every complexity above 0.7 select_model returns the complex-tier
\* model whatever the task type.
C2_HighComplexityIsComplex ==
    (last.op = "select_model" /\ last.complexity > 7) =>
        last.ret = models["complex"]

\* select_model("simple", 0.9) returned the complex-tier model
C2_Witness ==
    /\ last.op = "select_model"
    /\ last.task_type = "simple"
    /\ last.complexity = 9
    /\ TiersDistinct
    /\ last.ret = models["complex"]

\* C3: for a coding task type the result is the coding-tier model when
\* complexity <= 0.7 (also below 0.3) and the complex-tier model above 0.7.
C3_ComplexityBeforeCoding ==
    (last.op = "select_model" /\ last.task_type \in {"code", "coding", "programming"}) =>
        /\ last.complexity <= 7 => last.ret = models["coding"]
        /\ last.complexity > 7 => last.ret = models["complex"]

\* select_model("coding", 0.8) returned the complex-tier model, not the coding one
C3_Witness ==
    /\ last.op = "select_model"
    /\ last.task_type = "coding"
    /\ last.complexity = 8
    /\ TiersDistinct
    /\ last.ret = models["complex"]

\* the tier rules 2, 4 and 5 give when neither complexity rule fires
TierWithoutComplexityRules(task_type) ==
    IF task_type \in {"code", "coding", "programming"} THEN "coding"
    ELSE IF task_type \in {"analysis", "research", "planning"} THEN "complex"
    ELSE "default"

\* C4: the thresholds are strict: at exactly 0.7 and at exactly 0.3 the call
\* falls through to the later rules; file_operation is fast at 0.2 and
\* default at 0.3.
C4_StrictThresholds ==
    last.op = "select_model" =>
        /\ last.complexity \in {3, 7} =>
              last.ret = models[TierWithoutComplexityRules(last.task_type)]
        /\ (last.task_type = "file_operation" /\ last.complexity = 2) =>
              last.ret = models["fast"]
        /\ (last.task_type = "file_operation" /\ last.complexity = 3) =>
              last.ret = models["default"]

\* select_model("file_operation", 0.3) returned the default-tier model
C4_Witness ==
    /\ last.op = "select_model"
    /\ last.task_type = "file_operation"
    /\ last.complexity = 3
    /\ TiersDistinct
    /\ last.ret = models["default"]

----------------------------------------------------------------------------
(* Properties of ModelRouter.get_provider *)

\* a and b are the same character up to letter case
SameLetter(a, b) ==
    a = b \/ \E i \in DOMAIN UpperCase : {a, b} = {UpperCase[i], LowerCase[i]}

\* model contains the fragment in some letter case
HasFragment(frag, model) ==
    \E i \in 0..(Len(model) - Len(frag)) :
        \A j \in 1..Len(frag) : SameLetter(model[i + j], frag[j])

\* C5: get_provider resolves by case-insensitive substring match: "claude"
\* to the abacus key, "gpt" to the openai key, no fragment to the abacus key;
\* the provider returned is the registry's entry for that key.
C5_ProviderByFragment ==
    last.op = "get_provider" =>
        /\ (HasFragment(claude, last.model) /\ ~HasFragment(gpt, last.model)) =>
              last.key = "abacus"
        /\ (HasFragment(gpt, last.model) /\ ~HasFragment(claude, last.model)) =>
              last.key = "openai"
        /\ (~HasFragment(gpt, last.model) /\ ~HasFragment(claude, last.model)) =>
              last.key = "abacus"
        /\ last.model = claude_3_5_sonnet => last.key = "abacus"
        /\ last.model = gpt_4_turbo_preview => last.key = "openai"
        /\ last.model = GPT_4 => last.key = "openai"
        /\ last.model = unknown_model => last.key = "abacus"
        /\ last.key \in DOMAIN providers => last.ret = Some(providers[last.key])

\* get_provider("GPT-4") returned the registered OpenAI provider
C5_Witness ==
    /\ last.op = "get_provider"
    /\ last.model = GPT_4
    /\ last.key = "openai"
    /\ last.ret # None
    /\ last.ret[1].cls = "OpenAIProvider"

\* C6: when the resolved provider key is absent from the registry,
\* get_provider fails with ProviderNotConfigured and returns no value.
C6_AbsentKeyRaises ==
    (last.op = "get_provider" /\ last.key \notin DOMAIN providers) =>
        last.raised = "ProviderNotConfigured"

----------------------------------------------------------------------------
(* Properties of AbacusProvider.complete and OpenAIProvider.complete *)

\* the error a strict JSON reader raises for a string that is not JSON: the
\* specification's MalformedResponseError is read as this decode error
MalformedResponseError == "JSONDecodeError"

\* the calls to complete that have returned or raised
DoneTasks == {t \in DOMAIN inflight : inflight[t].pc = "done"}

\* the backend answered with a message holding a tool call that is not JSON
HasNonJsonArguments(response) ==
    \E i \in 1..Len(message_tool_calls(response)) :
        ~well_formed(JsonGrammar, message_tool_calls(response)[i].arguments)

\* C7: a response holding a tool call whose arguments are not valid JSON makes
\* complete fail with MalformedResponseError, for both providers, and the
\* arguments string is never handed to an evaluator of code.
C7_NonJsonArgumentsRejected ==
    \A t \in DoneTasks :
        HasNonJsonArguments(inflight[t].response) =>
            /\ inflight[t].raised = MalformedResponseError
            /\ inflight[t].result = None
            /\ "eval" \notin inflight[t].readers
            /\ inflight[t].executed = {}

\* C8: in every result complete returns, the arguments of every tool call are
\* a JSON object, read as JSON and not by evaluating code.
C8_ArgumentsAreObjects ==
    \A t \in DoneTasks :
        inflight[t].result # None =>
            /\ \A i \in 1..Len(inflight[t].result[1].tool_calls) :
                  inflight[t].result[1].tool_calls[i].function.arguments.type = "dict"
            /\ inflight[t].readers \subseteq {"json.loads"}

CategorizedErrors ==
    {"AuthError", "RateLimitError", "TransportError", "MalformedResponseError"}

\* C9: a failure of the backend call leaves complete as one of the four
\* categorized error kinds; no exception type of the client library escapes.
C9_BackendFailuresCategorized ==
    \A t \in DoneTasks :
        inflight[t].response.exc # "None" =>
            /\ inflight[t].raised \in CategorizedErrors
            /\ inflight[t].raised \notin BackendExceptions

----------------------------------------------------------------------------
(* Properties of create_llm_setup *)

\* the error create_llm_setup raises for a configuration without providers:
\* the specification's ConfigurationError is this ValueError
ConfigurationError == "ValueError"

NoCredential(c) ==
    \A k \in {"ABACUS_API_KEY", "OPENAI_API_KEY"} : k \notin DOMAIN c \/ c[k] = <<>>

\* C10: with neither credential present (or both empty) create_llm_setup
\* fails with the configuration error and returns no router and no provider.
C10_NoProviderFails ==
    (status # "start" /\ NoCredential(config)) =>
        /\ status = "failed"
        /\ last = [op |-> "create_llm_setup", raised |-> ConfigurationError]
        /\ providers = EmptyDict
        /\ models = EmptyDict
        /\ default_provider = None

\* create_llm_setup({}) has failed
C10_Witness ==
    /\ config = EmptyDict
    /\ status = "failed"
    /\ last.op = "create_llm_setup"
    /\ last.raised = "ValueError"

\* the configuration holds a non-empty value for the credential key
CredentialSet(c, key) == key \in DOMAIN c /\ Len(c[key]) > 0

\* C11: the registry holds a provider key exactly when that backend's
\* credential is set: "abacus" iff ABACUS_API_KEY, "openai" iff OPENAI_API_KEY;
\* one missing credential is no error while the other is set.
C11_RegistryMatchesCredentials ==
    status # "start" =>
        /\ status = "failed" <=>
              (~CredentialSet(config, "ABACUS_API_KEY")
                 /\ ~CredentialSet(config, "OPENAI_API_KEY"))
        /\ status # "failed" =>
              /\ "abacus" \in DOMAIN providers <=> CredentialSet(config, "ABACUS_API_KEY")
              /\ "openai" \in DOMAIN providers <=> CredentialSet(config, "OPENAI_API_KEY")
              /\ DOMAIN providers \subseteq {"abacus", "openai"}
              /\ "abacus" \in DOMAIN providers => providers["abacus"].cls = "AbacusProvider"
              /\ "openai" \in DOMAIN providers => providers["openai"].cls = "OpenAIProvider"

\* setup succeeded with only OPENAI_API_KEY set: the registry holds openai alone
C11_Witness ==
    /\ status = "ready"
    /\ last.op = "create_llm_setup"
    /\ CredentialSet(config, "OPENAI_API_KEY")
    /\ "ABACUS_API_KEY" \notin DOMAIN config
    /\ DOMAIN providers = {"openai"}

\* C12: the default provider is the abacus provider whenever it was configured
\* and otherwise the openai provider; after a successful setup it is a
\* constructed provider that is an entry of the router's registry.
C12_DefaultProviderPrimaryFirst ==
    status \in {"ready", "returned"} =>
        /\ default_provider # None
        /\ \E k \in DOMAIN providers : default_provider = Some(providers[k])
        /\ CredentialSet(config, "ABACUS_API_KEY") =>
              /\ default_provider = Some(providers["abacus"])
              /\ default_provider[1].cls = "AbacusProvider"
        /\ ~CredentialSet(config, "ABACUS_API_KEY") =>
              /\ default_provider = Some(providers["openai"])
              /\ default_provider[1].cls = "OpenAIProvider"

\* both backends are configured and the default provider is the abacus one
C12_Witness ==
    /\ status = "ready"
    /\ last.op = "create_llm_setup"
    /\ DOMAIN providers = {"abacus", "openai"}
    /\ default_provider # None
    /\ default_provider[1].cls = "AbacusProvider"

\* the primary backend's default model: DEFAULT_MODEL when configured
PrimaryDefaultModel(c) ==
    IF "DEFAULT_MODEL" \in DOMAIN c THEN c["DEFAULT_MODEL"] ELSE claude_3_5_sonnet

\* C17: without an override the complex and coding tiers default to the
\* primary backend's default model (the configured DEFAULT_MODEL when set), the
\* fast tier to a different, smaller model; an override is used verbatim.
C17_TierDefaultsFollowPrimary ==
    status \in {"ready", "returned"} =>
        /\ \A tier \in {"complex", "coding"} :
              LET key == IF tier = "complex" THEN "MODEL_COMPLEX" ELSE "MODEL_CODING"
              IN /\ key \notin DOMAIN config => models[tier] = PrimaryDefaultModel(config)
                 /\ key \in DOMAIN config => models[tier] = config[key]
        /\ models["default"] = PrimaryDefaultModel(config)
        /\ "abacus" \in DOMAIN providers =>
              providers["abacus"].default_model = models["default"]
        /\ "MODEL_FAST" \notin DOMAIN config =>
              /\ models["fast"] = claude_3_haiku
              /\ models["fast"] # PrimaryDefaultModel(config)
        /\ "MODEL_FAST" \in DOMAIN config => models["fast"] = config["MODEL_FAST"]

----------------------------------------------------------------------------
(* Further properties of complete *)

\* the calls to complete whose request has been built
IssuedTasks == {t \in DOMAIN inflight : inflight[t].pc \in {"awaiting", "done"}}

\* the tool calls the backend selected in its message, none when it has no list
BackendToolCalls(response) ==
    IF response.choices[1].tool_calls = None THEN <<>>
    ELSE response.choices[1].tool_calls[1]

\* C13: a complete call either returns a result with content and the full
\* tool_calls sequence or fails with an error, never both and never a part;
\* on timeout it fails with TransportError.
C13_ResultOrCategorizedError ==
    \A t \in DoneTasks :
        /\ (inflight[t].result # None) <=> (inflight[t].raised = "None")
        /\ inflight[t].result # None =>
              Len(inflight[t].result[1].tool_calls)
                 = Len(BackendToolCalls(inflight[t].response))
        /\ inflight[t].response.exc = "openai.APITimeoutError" =>
              inflight[t].raised = "TransportError"

\* C15: when the backend selects no tools the result's tool_calls is the
\* empty sequence and its content is the backend's text, the empty string
\* when the backend supplies none.
C15_NoToolsEmptyList ==
    \A t \in DoneTasks :
        LET r == inflight[t].response
        IN (r.exc = "None" /\ r.choices # <<>> /\ BackendToolCalls(r) = <<>>) =>
              /\ inflight[t].raised = "None"
              /\ inflight[t].result # None
              /\ inflight[t].result[1].tool_calls = <<>>
              /\ r.choices[1].content # None =>
                    inflight[t].result[1].content = r.choices[1].content[1]
              /\ r.choices[1].content = None => inflight[t].result[1].content = ""

\* a message with neither text nor tool calls was returned as "" and []
C15_Witness ==
    \E t \in DoneTasks :
        /\ inflight[t].response.exc = "None"
        /\ inflight[t].response.choices # <<>>
        /\ inflight[t].response.choices[1].content = None
        /\ inflight[t].response.choices[1].tool_calls = None
        /\ inflight[t].result # None
        /\ inflight[t].result[1].content = ""
        /\ inflight[t].result[1].tool_calls = <<>>

\* the caller supplied a non-empty list of tools
ToolsSupplied(t) == inflight[t].tools # None /\ Len(inflight[t].tools[1]) > 0

\* C16: with a non-empty tools list the request carries those tools and
\* tool_choice "auto", for both providers; no request forces a tool.
C16_ToolsAdvertisedAuto ==
    \A t \in IssuedTasks :
        /\ ToolsSupplied(t) =>
              /\ {"tools", "tool_choice"} \subseteq DOMAIN inflight[t].request
              /\ inflight[t].request["tools"] = inflight[t].tools[1]
              /\ inflight[t].request["tool_choice"] = "auto"
        /\ "tool_choice" \in DOMAIN inflight[t].request =>
              inflight[t].request["tool_choice"] = "auto"

\* an OpenAI request was sent with the caller's tool and tool_choice "auto"
C16_Witness ==
    \E t \in IssuedTasks :
        /\ inflight[t].pc = "awaiting"
        /\ inflight[t].self.cls = "OpenAIProvider"
        /\ ToolsSupplied(t)
        /\ "tool_choice" \in DOMAIN inflight[t].request
        /\ inflight[t].request["tool_choice"] = "auto"
        /\ inflight[t].request["tools"] = inflight[t].tools[1]

\* C20 as claimed: with model omitted the request uses the provider's default
\* model, and with any model supplied it uses exactly that model.
C20_SuppliedModelUsedExactly ==
    \A t \in IssuedTasks :
        /\ inflight[t].model = None =>
              inflight[t].request["model"] = inflight[t].self.default_model
        /\ inflight[t].model # None =>
              inflight[t].request["model"] = inflight[t].model[1]

\* C20: with model omitted, or supplied as the empty string, the request uses
\* the provider's configured default model; with a non-empty model supplied
\* it uses exactly that model.
C20_ModelOrDefault ==
    \A t \in IssuedTasks :
        /\ (inflight[t].model = None \/ inflight[t].model = Some(<<>>)) =>
              inflight[t].request["model"] = inflight[t].self.default_model
        /\ (inflight[t].model # None /\ inflight[t].model # Some(<<>>)) =>
              inflight[t].request["model"] = inflight[t].model[1]

\* a request sent with model omitted carries the configured DEFAULT_MODEL
C20_Witness ==
    \E t \in IssuedTasks :
        /\ inflight[t].model = None
        /\ "DEFAULT_MODEL" \in DOMAIN config
        /\ inflight[t].self.cls = "AbacusProvider"
        /\ inflight[t].request["model"] = config["DEFAULT_MODEL"]

----------------------------------------------------------------------------
(* Properties of concurrent calls and of the router's state *)

\* the provider class that serves each task's model
TaskProviderClass == [task1 |-> "AbacusProvider", task2 |-> "OpenAIProvider"]

TaskProviderKey == [task1 |-> "abacus", task2 |-> "openai"]

\* C14: two complete calls issued concurrently with different models, in any
\* interleaving, each reach the provider of their own model and each return
\* the result built from their own backend response; neither call's request,
\* result or tool_calls list is shared with or altered by the other.
C14_ConcurrentCallsIndependent ==
    \A t \in IssuedTasks :
        /\ inflight[t].self.cls = TaskProviderClass[t]
        /\ inflight[t].self = providers[TaskProviderKey[t]]
        /\ inflight[t].request["model"] = TaskModel[t]
        /\ inflight[t].request["messages"] = TaskConversation[t]
        /\ inflight[t].pc = "done" =>
              /\ inflight[t].response \in BackendReplies(inflight[t].request)
              /\ inflight[t].result # None =>
                    LET own == BackendToolCalls(inflight[t].response)
                        res == inflight[t].result[1]
                    IN /\ res.content = TaskConversation[t][1].content
                       /\ Len(res.tool_calls) = Len(own)
                       /\ \A i \in 1..Len(own) :
                             /\ res.tool_calls[i].id = own[i].id
                             /\ res.tool_calls[i].function.name = own[i].name

\* both calls were in flight together and each returned its own result
C14_Witness ==
    /\ \A t \in DOMAIN TaskModel :
          /\ inflight[t].pc = "done"
          /\ inflight[t].result # None
          /\ Len(inflight[t].result[1].tool_calls) = 1
    /\ inflight["task1"].self.cls = "AbacusProvider"
    /\ inflight["task2"].self.cls = "OpenAIProvider"
    /\ inflight["task1"].result[1].content # inflight["task2"].result[1].content

\* a step taken after construction leaves the router and its providers alone
RouterUntouched ==
    status \in {"ready", "returned"} =>
        /\ models' = models
        /\ providers' = providers
        /\ default_provider' = default_provider
        /\ \A k \in DOMAIN providers :
              providers'[k].default_model = providers[k].default_model

\* C19: after construction no select_model, get_provider or complete call
\* changes the router's tier models, its provider registry or a provider's
\* default_model.
C19_RouterImmutable == [][RouterUntouched]_vars

\* select_model has returned while a call to complete is done and another is
\* awaited, and the router is as it was constructed
C19_Witness ==
    /\ last.op = "select_model"
    /\ inflight["task1"].pc = "done"
    /\ inflight["task2"].pc = "awaiting"
    /\ models = router_models(config)
    /\ providers = setup_providers(config)

----------------------------------------------------------------------------
(* select_model as a pure function *)

\* C18: select_model is a pure function: a call with the same task_type and
\* complexity as an earlier call on a router built from the same configuration
\* returns the same model identifier, whatever calls were made in between.
C18_SelectModelPure ==
    ( /\ history.call # None
      /\ last.op = "select_model"
      /\ last.task_type = history.call[1].task_type
      /\ last.complexity = history.call[1].complexity )
        => last.ret = history.call[1].ret

\* a call repeats an earlier one after other calls on the router, and a call
\* with other arguments has a different answer
C18_Witness ==
    /\ history.call # None
    /\ history.between
    /\ last.op = "select_model"
    /\ last.task_type = history.call[1].task_type
    /\ last.complexity = history.call[1].complexity
    /\ last.ret = history.call[1].ret
    /\ \E task_type \in TaskTypes, complexity \in Complexities :
          select_model(models, task_type, complexity) # last.ret

----------------------------------------------------------------------------
(* The router's model reaching a provider, and both fragments in one model *)

\* the models select_model can return on this router
RoutableModels ==
    { select_model(models, task_type, complexity) :
        task_type \in TaskTypes, complexity \in Complexities }

\* C22: on every configuration on which create_llm_setup succeeds, the model
\* select_model returns for any task type and complexity resolves through
\* get_provider to a provider of the registry, never None.
C22_SelectedModelHasProvider ==
    (last.op = "get_provider" /\ last.model \in RoutableModels) =>
        /\ last.ret # None
        /\ last.key \in DOMAIN providers

\* C24: a model identifier containing both "gpt" and "claude", in any letter
\* case, resolves to the openai provider key: the "gpt" fragment is tested
\* first.
C24_GptBeforeClaude ==
    ( /\ last.op = "get_provider"
      /\ HasFragment(gpt, last.model)
      /\ HasFragment(claude, last.model) )
        => /\ last.key = "openai"
           /\ last.ret = dict_get(providers, "openai")

\* get_provider("claude-via-Gpt") returned the registered OpenAI provider
\* although the abacus provider is registered too
C24_Witness ==
    /\ last.op = "get_provider"
    /\ last.model = claude_via_gpt
    /\ last.key = "openai"
    /\ "abacus" \in DOMAIN providers
    /\ last.ret # None
    /\ last.ret[1].cls = "OpenAIProvider"

----------------------------------------------------------------------------
(* The two providers on one backend response *)

\* the backend answered with a message whose tool calls all carry a JSON
\* object as arguments string
JsonObjectArguments(response) ==
    /\ response.exc = "None"
    /\ response.choices # <<>>
    /\ \A i \in 1..Len(message_tool_calls(response)) :
          LET read == json_loads(message_tool_calls(response)[i].arguments)
          IN read.raised = "None" /\ read.value[1].type = "dict"

\* C23: on the same backend response whose tool calls carry JSON-object
\* arguments strings (the literals true, false and null included), both
\* providers return equal results that keep the backend's tool-call order,
\* ids and names.
C23_ProvidersNormalizeAlike ==
    \A t \in DoneTasks :
        JsonObjectArguments(inflight[t].response) =>
            LET a == AbacusProvider_complete(inflight[t].response)
                o == OpenAIProvider_complete(inflight[t].response)
                own == BackendToolCalls(inflight[t].response)
            IN /\ a.raised = o.raised
               /\ a.result = o.result
               /\ inflight[t].result # None
               /\ Len(inflight[t].result[1].tool_calls) = Len(own)
               /\ \A i \in 1..Len(own) :
                     /\ inflight[t].result[1].tool_calls[i].id = own[i].id
                     /\ inflight[t].result[1].tool_calls[i].function.name = own[i].name

----------------------------------------------------------------------------
(* Properties of get_tools *)

\* C21: for every list of category names passed to get_tools, repeated
\* categories and "all" next to another category included, the returned tool
\* list holds no two schemas with the same function name.
C21_ToolNamesUnique ==
    last.op = "get_tools" =>
        \A i, j \in 1..Len(last.ret) :
            i # j => last.ret[i].function.name # last.ret[j].function.name

----------------------------------------------------------------------------
(* Properties of BolComClient._get_token *)

\* what a step of one _get_token call must be
TokenStep(t) ==
    /\ (inflight[t].pc = "idle" /\ inflight'[t].pc = "done") =>
          /\ client.token # None
          /\ now < client.token_expires - ExpiryMargin
          /\ inflight'[t].ret = client.token
          /\ inflight'[t].raised = "None"
          /\ ~inflight'[t].requested
          /\ client' = client
    /\ (inflight[t].pc = "idle" /\ inflight'[t].pc = "awaiting") =>
          /\ client.token = None \/ now >= client.token_expires - ExpiryMargin
          /\ inflight'[t].requested
          /\ client' = client
    /\ (inflight[t].pc = "idle" /\ client.token # None
           /\ now < client.token_expires - ExpiryMargin) =>
          inflight'[t].pc # "awaiting"
    /\ (inflight[t].pc = "awaiting" /\ inflight'[t].pc = "done") =>
          IF inflight'[t].raised = "None"
          THEN /\ client'.token = inflight'[t].ret
               /\ client'.token \in {Some(a) : a \in AccessTokens}
               /\ client'.token_expires \in {now + e : e \in ExpiresIn}
          ELSE /\ inflight'[t].raised = "Exception"
               /\ inflight'[t].ret = None
               /\ client' = client

\* C25: once a token with expiry E is stored, a _get_token call made earlier
\* than E - 30 seconds returns the stored token and issues no auth request;
\* a call at or after E - 30 issues an auth request, whose success replaces
\* the stored token and expiry; a failed auth raises and leaves the stored
\* token and expiry unchanged.
C25_TokenCached == [][\A t \in TokenTasks : t \in DOMAIN inflight => TokenStep(t)]_vars

\* one call has returned the stored token without a request while another
\* call's auth has failed and the stored token is still there
C25_Witness ==
    /\ DOMAIN inflight = TokenTasks
    /\ client.token # None
    /\ now < client.token_expires - ExpiryMargin
    /\ \E t, u \in TokenTasks :
          /\ inflight[t].pc = "done"
          /\ ~inflight[t].requested
          /\ inflight[t].ret = client.token
          /\ inflight[u].pc = "done"
          /\ inflight[u].raised = "Exception"

====
